---- MODULE Spec2Model ----
(***************************************************************************)
(* The dual-tier cache engine of unsplash-workers-api                      *)
(* (src/unnamed/part_000): one partition (cache key) of the KV store, the  *)
(* /random request handler and the background work it schedules with       *)
(* ctx.waitUntil.  Every KV get/put and every upstream fetch is one step;  *)
(* the code between two awaits runs with the step that ends the await.     *)
(***************************************************************************)
EXTENDS Integers, Sequences, FiniteSets, TLC

\* Slots per tier: the literal 30 of the source (Array(30), % 30, count=30),
\* scaled down so that a tier can be filled, drained and wrapped around.
CAPACITY == 2
\* Worker invocations that may be in flight at the same time.
NumProcs == 2
\* /random requests in one behaviour.
MaxRequests == 3
\* Upstream responses in one behaviour that are not the nominal one (a
\* failure, or a bulk response of another size than asked for).
MaxFaults == 1
\* The same two budgets when requests arrive one at a time, each after the
\* background work of the one before has ended.
MaxSerialRequests == 4
MaxSerialFaults == 3
\* The requests of a behaviour whose requests go to several partitions.
MaxPartitionRequests == 3

Procs == 1..NumProcs

\* A slot holds null or an image record (an identifier >= 1).  Reading past
\* the end of a JS array gives undefined.
Null == 0
Undefined == -1
\* The record of the single-image upstream fetch.
LiveImage == 1
\* Identifiers of the records of one bulk fetch: CAPACITY + 2 per fetch.
IdStride == CAPACITY + 2

\* Sizes of the bulk response the upstream may give: none, fewer than asked,
\* as many as asked (count=30), one more than asked.
BatchSizes == {0, 1, CAPACITY, CAPACITY + 1}

\* null of a request parameter (a string-valued field that is absent).
NullString == "<null>"

\* if (!value), value || fallback: null and the empty string are falsy.
Falsy(value) == value \in {NullString, ""}

\* The params of a request that names no filter: validateOrientation gives
\* landscape, sanitizeCollectionIds null.
HomeParams ==
    [orientation |-> "landscape", collectionIds |-> NullString, addPhotoOfTheDay |-> FALSE]

\* Collection ids a request may name; the first is the Photo of the day
\* collection of the source.
PhotoOfTheDayCollection == "1459961"
OtherCollection == "1538150"

\* What the parameter layer (validateOrientation, sanitizeCollectionIds, the
\* === 'true' test) can hand to the handler.
LayerParams ==
    [orientation : {"landscape", "portrait", "squarish"},
     collectionIds : {NullString, "", PhotoOfTheDayCollection, OtherCollection},
     addPhotoOfTheDay : BOOLEAN]

\* What generateCacheKey may be called with: also an absent or empty
\* orientation and the literals it treats as defaults.
KeyInputs ==
    [orientation : {NullString, "", "default", "landscape", "portrait", "squarish"},
     collectionIds : {NullString, "", "none", PhotoOfTheDayCollection, OtherCollection},
     addPhotoOfTheDay : BOOLEAN]

----------------------------------------------------------------------------
\* generateCacheKey(params).

RelevantParams(prm) ==
    [orientation |-> IF Falsy(prm.orientation) THEN "default" ELSE prm.orientation,
     collectionIds |-> IF Falsy(prm.collectionIds) THEN "none" ELSE prm.collectionIds,
     addPhotoOfTheDay |-> prm.addPhotoOfTheDay]

\* Mutant of SortedKeys: the fields in the order they were written.
UnsortedKeys == <<"orientation", "collectionIds", "addPhotoOfTheDay">>

\* Object.keys(relevantParams).sort()
SortedKeys == <<"addPhotoOfTheDay", "collectionIds", "orientation">>

\* The one field of relevantParams that holds a boolean.
IsFlag(key) == key = "addPhotoOfTheDay"

\* value === 'none' || value === false || value === 'default'
Skipped(key, value) ==
    IF IsFlag(key) THEN value = FALSE ELSE value \in {"none", "default"}

\* `${key}=${value}`
KeyPart(key, value) ==
    key \o "=" \o (IF IsFlag(key) THEN (IF value THEN "true" ELSE "false") ELSE value)

\* sortedKeys.map(...).filter(part => part !== null)
RECURSIVE KeyParts(_, _)
KeyParts(rel, keys) ==
    IF keys = << >> THEN << >>
    ELSE LET key == Head(keys) IN
         (IF Skipped(key, rel[key]) THEN << >> ELSE <<KeyPart(key, rel[key])>>)
            \o KeyParts(rel, Tail(keys))

\* keyParts.join('_')
RECURSIVE Join(_)
Join(parts) ==
    IF Len(parts) = 1 THEN parts[1] ELSE parts[1] \o "_" \o Join(Tail(parts))

GenerateCacheKey(prm) ==
    LET keyParts == KeyParts(RelevantParams(prm), SortedKeys) IN
    IF Len(keyParts) > 0 THEN Join(keyParts) ELSE "default"

\* The filters of the upstream query of refillBufferCache and of
\* fetchImageFromUnsplash: orientation if given; collections is the Photo of
\* the day collection with addPhotoOfTheDay, else collectionIds if given.
UpstreamFilter(prm) ==
    [orientation |-> IF Falsy(prm.orientation) THEN "" ELSE prm.orientation,
     collections |-> IF prm.addPhotoOfTheDay THEN PhotoOfTheDayCollection
                     ELSE IF Falsy(prm.collectionIds) THEN "" ELSE prm.collectionIds]

\* The three entries of the partition of a cache key.
MetaKeyOf(k) == "META_" \o k
MainKeyOf(k) == "MAIN_" \o k
BufferKeyOf(k) == "BUFFER_" \o k

\* The partition of the requests without filters.
HomeKey == GenerateCacheKey(HomeParams)
MetaKey == MetaKeyOf(HomeKey)
MainKey == MainKeyOf(HomeKey)
BufferKey == BufferKeyOf(HomeKey)

VARIABLES
    kv,          \* the KV namespace: a function from the keys present to values
    clock,       \* the time: it advances with every upstream bulk response
    reqs,        \* requests started so far
    faults,      \* upstream responses so far that were not the nominal one
    serial,      \* the clients send one request at a time (it never changes)
    filters,     \* the params the clients' requests carry (it never changes)
    flaky,       \* a put on the store may fail (it never changes)
    origin,      \* history: the cache key each bulk response was fetched for
    circuitBreaker, \* the module's circuitBreaker object
    streak,      \* history: upstream calls that failed since the last one that
                 \* answered, counted where requests come one at a time
    served,      \* history: the records answered from a tier so far, kept
                 \* where requests come one at a time
    metricsUpdateQueue, \* src/src/index.js: the queued increments, by metric
    metricsUpdateTimer, \* src/src/index.js: the batch timer is set
    flush,       \* src/src/index.js: where the timer's callback stands, and
                 \* the metadata object it holds
    called,      \* history: the updateMetrics calls made, by metric
    pc,          \* where each invocation stands
    noCache,     \* params.noCache of the invocation's request
    params,      \* orientation, collectionIds, addPhotoOfTheDay of the request
    cacheKey,    \* const cacheKey = generateCacheKey(params)
    cacheType,   \* the tier getImageFromCache works on: "main", "buffer", "none"
    metadata,    \* the invocation's metadata object
    cacheArray,  \* the array the invocation holds (cacheArray, bufferArray, optimizedImages)
    imageData,   \* cacheResult.imageData
    metadataChanged, \* cacheResult.metadataChanged
    chain,       \* background tasks still to run, in order
    response,    \* the response returned to the client
    entry,       \* history: <<main count, buffer count>> the request loaded
    batches,     \* history: sizes of the bulk responses the invocation got
    failed,      \* history: the background work threw
    solo,        \* history: no other invocation ran since this one began
    prior        \* history: <<buffer array, bufferCache>> when the refill began,
                 \* kept where puts may fail

\* The upstream and the clock; the history variables.
world == <<clock, reqs, faults, serial, filters, flaky, origin, circuitBreaker, metricsUpdateQueue, metricsUpdateTimer, flush, called, served, streak>>
history == <<entry, batches, failed, solo, prior>>

vars == <<kv, clock, reqs, faults, serial, filters, flaky, origin, circuitBreaker, metricsUpdateQueue, metricsUpdateTimer, flush, called, served, streak, pc, noCache, params, cacheKey, cacheType, metadata, cacheArray, imageData,
          metadataChanged, chain, response, entry, batches, failed, solo, prior>>

----------------------------------------------------------------------------
\* The KV store.

Has(store, k) == k \in DOMAIN store

Put(store, k, v) == [x \in DOMAIN store \cup {k} |-> IF x = k THEN v ELSE store[x]]

\* Mutant of EmptyArray: a single slot.
EmptyArrayOneSlot == <<Null>>

\* Array(30).fill(null)
EmptyArray == [i \in 1..CAPACITY |-> Null]

\* The fresh metadata of getOrInitializeMetadata.
ZeroMeta ==
    [mainCache |-> [count |-> 0, currentPointer |-> 0],
     bufferCache |-> [count |-> 0, currentPointer |-> 0],
     isRefilling |-> FALSE,
     lastRefillTime |-> 0]

Field(t) == IF t = "main" THEN "mainCache" ELSE "bufferCache"

\* Mutant of StorageKeyOf: one pair of arrays for all partitions.
StorageKeyShared(k, t) == IF t = "main" THEN MainKeyOf(HomeKey) ELSE BufferKeyOf(HomeKey)

StorageKeyOf(k, t) == IF t = "main" THEN MainKeyOf(k) ELSE BufferKeyOf(k)

StorageKey(t) == StorageKeyOf(HomeKey, t)

\* cacheArray[i] of JS, i counted from 0.
Slot(arr, i) == IF i < Len(arr) THEN arr[i + 1] ELSE Undefined

\* cacheArray[i] = null followed by JSON.stringify: an index past the end
\* grows the array, and the holes are written as null.
ClearSlot(arr, i) ==
    IF i < Len(arr)
    THEN [arr EXCEPT ![i + 1] = Null]
    ELSE [j \in 1..(i + 1) |-> IF j <= Len(arr) THEN arr[j] ELSE Null]

\* if (cacheResult.imageData)
Truthy(img) == img # Null /\ img # Undefined

\* Number of records an array holds.
Occupied(arr) == Cardinality({j \in 1..Len(arr) : arr[j] # Null})

NoResponse == [status |-> "none", from |-> "none", image |-> Null]

\* message.includes(part)
Includes(message, part) ==
    \E i \in 1..(Len(message) - Len(part) + 1) :
        SubSeq(message, i, i + Len(part) - 1) = part

\* The catch of handleRandomRequest: the status of the error response.
StatusOf(message) ==
    IF Includes(message, "Rate limit") THEN 429
    ELSE IF Includes(message, "Circuit breaker") THEN 503
    ELSE 500

\* new Response(`Error: ${error.message}`, { status })
ErrorResponse(from, message) ==
    [status |-> "error", from |-> from, image |-> Null,
     code |-> StatusOf(message), body |-> "Error: " \o message]

\* The response to a request with both addPhotoOfTheDay and collections.
BothFiltersResponse ==
    [status |-> "error", from |-> "none", image |-> Null, code |-> 400,
     body |-> "Error: Cannot use both addPhotoOfTheDay and collections parameters together."]

\* throw new Error(`API error: ${response.status} ${response.statusText}`)
ApiError(status, statusText) == "API error: " \o status \o " " \o statusText

\* The answers of the upstream that are not ok, as <<status, statusText>>:
\* rate limiting with the reason phrase of the protocol and without one
\* (HTTP/2 sends none), and a server error.
HttpFailures ==
    {<<"429", "Too Many Requests">>, <<"429", "">>, <<"500", "Internal Server Error">>}

\* The errors fetchImageFromUnsplash can throw: a response that is not ok,
\* or the error of a fetch that got no response.
UpstreamErrors ==
    {ApiError(f[1], f[2]) : f \in HttpFailures} \cup {"Network connection lost."}

\* The error of a put the store refuses.
PutError == "KV PUT failed: 429 Too Many Requests"

----------------------------------------------------------------------------
\* getImageFromCache: the slot scan.

\* Mutant of NextPointer: the pointer advances without wrapping.
NextPointerNoWrap(ptr) == ptr + 1

\* cache.currentPointer = (cache.currentPointer + 1) % 30
NextPointer(ptr) == (ptr + 1) % CAPACITY

\* if (cacheArray[cache.currentPointer] !== null)
HasImage(arr, i) == Slot(arr, i) # Null

\* The while loop: from the slot after the pointer, at most CAPACITY slots,
\* until a slot that is not null or the pointer is back where it started.
\* inspected is the number of slots the loop has looked at.
RECURSIVE ScanLoop(_, _, _, _)
ScanLoop(arr, ptr, startPointer, loopCount) ==
    IF loopCount >= CAPACITY
    THEN [foundIndex |-> -1, currentPointer |-> ptr, inspected |-> loopCount]
    ELSE LET next == NextPointer(ptr) IN
         IF HasImage(arr, next)
         THEN [foundIndex |-> next, currentPointer |-> next, inspected |-> loopCount + 1]
         ELSE IF next = startPointer
              THEN [foundIndex |-> -1, currentPointer |-> next, inspected |-> loopCount + 1]
              ELSE ScanLoop(arr, next, startPointer, loopCount + 1)

Scan(arr, ptr) == ScanLoop(arr, ptr, ptr, 0)

\* The while loop of the single-partition variant: it goes on until
\* checkedCount slots that hold a record were seen, or a record matches the
\* criteria.  The loop changes nothing but the pointer and checkedCount, so
\* once CAPACITY slots in a row held nothing it is where it was a full turn
\* before and never ends: running.
RECURSIVE ScanLoopSingle(_, _, _, _, _, _, _)
ScanLoopSingle(arr, matching, ptr, count, checkedCount, inspected, idle) ==
    IF ~(checkedCount < count)
    THEN [foundIndex |-> -1, currentPointer |-> ptr, inspected |-> inspected,
          running |-> FALSE]
    ELSE IF idle >= CAPACITY
    THEN [foundIndex |-> -1, currentPointer |-> ptr, inspected |-> inspected,
          running |-> TRUE]
    ELSE LET next == NextPointer(ptr)
             img == Slot(arr, next) IN
         IF Truthy(img)
         THEN IF img \in matching
              THEN [foundIndex |-> next, currentPointer |-> next,
                    inspected |-> inspected + 1, running |-> FALSE]
              ELSE ScanLoopSingle(arr, matching, next, count, checkedCount + 1,
                                  inspected + 1, 0)
         ELSE ScanLoopSingle(arr, matching, next, count, checkedCount,
                             inspected + 1, idle + 1)

ScanSingle(arr, matching, ptr, count) == ScanLoopSingle(arr, matching, ptr, count, 0, 0, 0)

\* The metadata with tier t's count and pointer set.
SetTier(m, t, c, ptr) ==
    [m EXCEPT ![Field(t)] = [count |-> c, currentPointer |-> ptr]]

----------------------------------------------------------------------------
\* handleRandomRequest: which operation pattern comes next.  The result is
\* <<pc, cacheType>>.

\* Mutant of UseMain: nocache is ignored.
UseMainAlways(m, nc) == m.mainCache.count > 0

\* OPERATION PATTERN 1
UseMain(m, nc) == m.mainCache.count > 0 /\ ~nc

\* OPERATION PATTERN 2
UseBuffer(m, nc) == m.mainCache.count = 0 /\ m.bufferCache.count > 0 /\ ~nc

\* After the main tier gave no record: pattern 2, else pattern 3.
AfterMain(m, nc) ==
    IF UseBuffer(m, nc) THEN <<"take_get", "buffer">> ELSE <<"fetch_image", "none">>

Dispatch(m, nc) ==
    IF UseMain(m, nc) THEN <<"take_get", "main">> ELSE AfterMain(m, nc)

\* Where the handler goes when getImageFromCache(t) returned no record.
NoImage(m, nc, t) ==
    IF t = "main" THEN AfterMain(m, nc) ELSE <<"fetch_image", "none">>

\* Mutant of NeedsRefresh: the refresh is scheduled whenever the buffer
\* holds records.
NeedsRefreshEarly(m) == m.bufferCache.count > 0

\* Pattern 1: refillCacheSystem is scheduled when main is now empty and the
\* buffer is not.
NeedsRefresh(m) == m.mainCache.count = 0 /\ m.bufferCache.count > 0

RefreshChain(m) ==
    IF NeedsRefresh(m) THEN <<"copyBufferToMain", "refillBufferCache">> ELSE <<>>

\* Mutant of BufferChain: the buffer is refilled before it is promoted.
BufferChainRefillFirst == <<"updateMetadata", "refillBufferCache", "copyBufferToMain">>

\* Pattern 2: the maintenance work after a serve from the buffer.
BufferChain == <<"updateMetadata", "copyBufferToMain", "refillBufferCache">>

\* Pattern 3: the cold chain, when both tiers are empty.
BothEmpty(m) == m.mainCache.count = 0 /\ m.bufferCache.count = 0

\* Mutant of ColdChain: the buffer is refilled and never promoted.
ColdChainNoPromote(m) ==
    IF BothEmpty(m) THEN <<"refillBufferCache", "refillBufferCache">> ELSE <<>>

\* Mutant of ColdChain: the promotion comes before the first refill.
ColdChainPromoteFirst(m) ==
    IF BothEmpty(m)
    THEN <<"copyBufferToMain", "refillBufferCache", "refillBufferCache">>
    ELSE <<>>

ColdChain(m) ==
    IF BothEmpty(m)
    THEN <<"refillBufferCache", "copyBufferToMain", "refillBufferCache">>
    ELSE <<>>

TaskPc(task) ==
    CASE task = "updateMetadata" -> "bg_meta"
      [] task = "copyBufferToMain" -> "cp_get"
      [] task = "refillBufferCache" -> "rf_start"

\* The invocation goes on with the first task of ch, or is done.
RunNext(p, ch) ==
    /\ pc' = [pc EXCEPT ![p] = IF ch = <<>> THEN "done" ELSE TaskPc(Head(ch))]
    /\ chain' = [chain EXCEPT ![p] = IF ch = <<>> THEN <<>> ELSE Tail(ch)]

\* Mutant of Throw: the error is swallowed and the chain goes on.
ThrowSwallowed(p) ==
    /\ RunNext(p, chain[p])
    /\ failed' = [failed EXCEPT ![p] = TRUE]

\* A background task threw: the rest of its chain does not run.
Throw(p) ==
    /\ pc' = [pc EXCEPT ![p] = "done"]
    /\ chain' = [chain EXCEPT ![p] = <<>>]
    /\ failed' = [failed EXCEPT ![p] = TRUE]

AtRest(p) == pc[p] \in {"idle", "done"}

\* How many requests and how many non-nominal upstream responses a
\* behaviour may hold.
RequestBudget ==
    IF ~serial THEN MaxRequests
    ELSE IF Cardinality(filters) > 1 THEN MaxPartitionRequests ELSE MaxSerialRequests
FaultBudget == IF serial THEN MaxSerialFaults ELSE MaxFaults

----------------------------------------------------------------------------
\* Nothing is stored and no invocation runs; one: the value of serial,
\* sent: the params the requests will carry, breaks: the value of flaky.
\* const circuitBreaker = {...}: the object as the module creates it.
CircuitBreaker ==
    [failures |-> 0,
     lastFailure |-> 0,
     state |-> "CLOSED",
     resetThreshold |-> 30000,
     failureThreshold |-> 3]

\* The metrics the single-partition variant counts on the request path that
\* is answered from main (src/src/index.js).
MetricNames == {"totalRequests", "cacheHits", "mainCacheHits"}

\* let metricsUpdateQueue = {}: no increment is queued.
NoUpdates == [name \in MetricNames |-> 0]

\* The timer's callback is not running.
NoFlush == [at |-> "none", metadata |-> ZeroMeta]

\* The history of upstream calls: one more failed, or one answered.
CallFailed == streak' = IF serial THEN streak + 1 ELSE streak
CallAnswered == streak' = 0

\* The history of answers: record img was answered from a tier.
Serve(img) == served' = IF serial THEN served \cup {img} ELSE served

\* The upstream, the clock and the constants of a behaviour.
upstream == <<clock, reqs, faults, serial, filters, flaky, origin, circuitBreaker, metricsUpdateQueue, metricsUpdateTimer, flush, called, streak>>

Start(one, sent, breaks) ==
    /\ kv = << >>
    /\ clock = 0
    /\ reqs = 0
    /\ faults = 0
    /\ serial = one
    /\ filters = sent
    /\ flaky = breaks
    /\ origin = << >>
    /\ circuitBreaker = CircuitBreaker
    /\ streak = 0
    /\ served = {}
    /\ metricsUpdateQueue = NoUpdates
    /\ metricsUpdateTimer = FALSE
    /\ flush = NoFlush
    /\ called = NoUpdates
    /\ pc = [p \in Procs |-> "idle"]
    /\ noCache = [p \in Procs |-> FALSE]
    /\ params = [p \in Procs |-> HomeParams]
    /\ cacheKey = [p \in Procs |-> HomeKey]
    /\ cacheType = [p \in Procs |-> "none"]
    /\ metadata = [p \in Procs |-> ZeroMeta]
    /\ cacheArray = [p \in Procs |-> << >>]
    /\ imageData = [p \in Procs |-> Null]
    /\ metadataChanged = [p \in Procs |-> FALSE]
    /\ chain = [p \in Procs |-> << >>]
    /\ response = [p \in Procs |-> NoResponse]
    /\ entry = [p \in Procs |-> <<0, 0>>]
    /\ batches = [p \in Procs |-> << >>]
    /\ failed = [p \in Procs |-> FALSE]
    /\ solo = [p \in Procs |-> TRUE]
    /\ prior = [p \in Procs |-> << >>]

Init == Start(FALSE, {HomeParams}, FALSE)

\* A /random request can arrive and get invocation p, the first free one:
\* which one it is makes no difference.
Arrives(p) ==
    /\ pc[p] = "idle"
    /\ \A q \in Procs : q < p => pc[q] # "idle"
    /\ reqs < RequestBudget
    /\ serial => \A q \in Procs : pc[q] = "idle"

\* if (params.addPhotoOfTheDay && params.collectionIds)
BothFilters(prm) == prm.addPhotoOfTheDay /\ ~Falsy(prm.collectionIds)

\* A /random request arrives (nc: nocache=true, prm: its filters): the
\* params are built and checked and the cache key is generated.
HandleRandomRequest(p, nc, prm) ==
    /\ Arrives(p)
    /\ ~BothFilters(prm)
    /\ reqs' = reqs + 1
    /\ pc' = [pc EXCEPT ![p] = "meta_get"]
    /\ noCache' = [noCache EXCEPT ![p] = nc]
    /\ params' = [params EXCEPT ![p] = prm]
    /\ cacheKey' = [cacheKey EXCEPT ![p] = GenerateCacheKey(prm)]
    /\ solo' = [q \in Procs |->
                  IF q = p THEN \A r \in Procs \ {p} : AtRest(r)
                  ELSE IF pc[q] = "idle" THEN solo[q] ELSE FALSE]
    /\ UNCHANGED <<serial, filters, flaky, circuitBreaker, metricsUpdateQueue, metricsUpdateTimer, flush, called, served, streak, origin, kv, clock, faults, cacheType, metadata, cacheArray, imageData,
                   metadataChanged, chain, response, entry, batches, failed, prior>>

\* getOrInitializeMetadata: the get of META_<key>.
GetOrInitializeMetadata_Get(p) ==
    /\ pc[p] = "meta_get"
    /\ IF Has(kv, MetaKeyOf(cacheKey[p]))
       THEN LET m == kv[MetaKeyOf(cacheKey[p])]
                d == Dispatch(m, noCache[p]) IN
            /\ metadata' = [metadata EXCEPT ![p] = m]
            /\ entry' = [entry EXCEPT ![p] = <<m.mainCache.count, m.bufferCache.count>>]
            /\ pc' = [pc EXCEPT ![p] = d[1]]
            /\ cacheType' = [cacheType EXCEPT ![p] = d[2]]
       ELSE /\ metadata' = [metadata EXCEPT ![p] = ZeroMeta]
            /\ entry' = [entry EXCEPT ![p] = <<0, 0>>]
            /\ pc' = [pc EXCEPT ![p] = "init_main"]
            /\ UNCHANGED cacheType
    /\ UNCHANGED <<kv, world, noCache, params, cacheKey, cacheArray, imageData, metadataChanged, chain,
                   response, batches, failed, solo, prior>>

\* getOrInitializeMetadata: put MAIN_<key> = Array(30).fill(null).
GetOrInitializeMetadata_PutMain(p) ==
    /\ pc[p] = "init_main"
    /\ kv' = Put(kv, MainKeyOf(cacheKey[p]), EmptyArray)
    /\ pc' = [pc EXCEPT ![p] = "init_buffer"]
    /\ UNCHANGED <<world, noCache, params, cacheKey, cacheType, metadata, cacheArray, imageData,
                   metadataChanged, chain, response, history>>

\* getOrInitializeMetadata: put BUFFER_<key> = Array(30).fill(null).
GetOrInitializeMetadata_PutBuffer(p) ==
    /\ pc[p] = "init_buffer"
    /\ kv' = Put(kv, BufferKeyOf(cacheKey[p]), EmptyArray)
    /\ pc' = [pc EXCEPT ![p] = "init_meta"]
    /\ UNCHANGED <<world, noCache, params, cacheKey, cacheType, metadata, cacheArray, imageData,
                   metadataChanged, chain, response, history>>

\* getOrInitializeMetadata: updateMetadata of the fresh record; the handler
\* then picks its pattern.
GetOrInitializeMetadata_PutMeta(p) ==
    /\ pc[p] = "init_meta"
    /\ kv' = Put(kv, MetaKeyOf(cacheKey[p]), metadata[p])
    /\ LET d == Dispatch(metadata[p], noCache[p]) IN
       /\ pc' = [pc EXCEPT ![p] = d[1]]
       /\ cacheType' = [cacheType EXCEPT ![p] = d[2]]
    /\ UNCHANGED <<world, noCache, params, cacheKey, metadata, cacheArray, imageData, metadataChanged,
                   chain, response, history>>

\* A request with both addPhotoOfTheDay and collections is answered with an
\* error before anything is read.
HandleRandomRequest_Reject(p, prm) ==
    /\ Arrives(p)
    /\ BothFilters(prm)
    /\ reqs' = reqs + 1
    /\ pc' = [pc EXCEPT ![p] = "done"]
    /\ params' = [params EXCEPT ![p] = prm]
    /\ response' = [response EXCEPT ![p] = BothFiltersResponse]
    /\ solo' = [q \in Procs |->
                  IF q = p THEN \A r \in Procs \ {p} : AtRest(r)
                  ELSE IF pc[q] = "idle" THEN solo[q] ELSE FALSE]
    /\ UNCHANGED <<serial, filters, flaky, circuitBreaker, metricsUpdateQueue, metricsUpdateTimer, flush, called, served, streak, origin, kv, clock, faults, noCache, cacheKey, cacheType, metadata,
                   cacheArray, imageData, metadataChanged, chain, entry, batches, failed, prior>>

----------------------------------------------------------------------------
\* getImageFromCache(metadata, params, cacheType).

\* Mutant of TierEmpty: the test is left out.
TierEmptyNever(cache) == FALSE

\* if (cache.count === 0)
TierEmpty(cache) == cache.count = 0

\* Mutant of TakeMeta: the count is not decremented.
TakeMetaNoDecrement(m, t, s) == SetTier(m, t, m[Field(t)].count, s.currentPointer)

\* Mutant of TakeMeta: the count is one below the stored count at the time
\* of the put, not one below the count of the caller's metadata.
TakeMetaFromStore(m, t, s) ==
    SetTier(m, t, kv[MetaKeyOf(HomeKey)][Field(t)].count - 1, s.currentPointer)

\* What the call leaves in the metadata when it found slot s of arr: the
\* count one lower, the pointer on the slot.
TakeMeta(m, t, s) == SetTier(m, t, m[Field(t)].count - 1, s.currentPointer)

\* What the call leaves in the metadata when the scan found nothing.
ResyncMeta(m, t, s) == SetTier(m, t, 0, s.currentPointer)

\* The get of the tier's array and the scan.  A scan that finds nothing
\* resets the count and returns no record; a found slot is cleared and
\* written back by the next step.
GetImageFromCache_Get(p) ==
    /\ pc[p] = "take_get"
    /\ LET t == cacheType[p]
           m == metadata[p]
           cache == m[Field(t)] IN
       IF TierEmpty(cache)
       THEN LET d == NoImage(m, noCache[p], t) IN
            /\ pc' = [pc EXCEPT ![p] = d[1]]
            /\ cacheType' = [cacheType EXCEPT ![p] = d[2]]
            /\ metadataChanged' = [metadataChanged EXCEPT ![p] = FALSE]
            /\ UNCHANGED <<kv, metadata, cacheArray>>
       ELSE IF ~Has(kv, StorageKeyOf(cacheKey[p], t))
       THEN LET m2 == SetTier(m, t, 0, cache.currentPointer)
                d == NoImage(m2, noCache[p], t) IN
            /\ kv' = Put(kv, StorageKeyOf(cacheKey[p], t), EmptyArray)
            /\ metadata' = [metadata EXCEPT ![p] = m2]
            /\ pc' = [pc EXCEPT ![p] = d[1]]
            /\ cacheType' = [cacheType EXCEPT ![p] = d[2]]
            /\ metadataChanged' = [metadataChanged EXCEPT ![p] = TRUE]
            /\ UNCHANGED cacheArray
       ELSE LET arr == kv[StorageKeyOf(cacheKey[p], t)]
                s == Scan(arr, cache.currentPointer) IN
            IF s.foundIndex = -1
            THEN LET m2 == ResyncMeta(m, t, s)
                     d == NoImage(m2, noCache[p], t) IN
                 /\ metadata' = [metadata EXCEPT ![p] = m2]
                 /\ pc' = [pc EXCEPT ![p] = d[1]]
                 /\ cacheType' = [cacheType EXCEPT ![p] = d[2]]
                 /\ metadataChanged' = [metadataChanged EXCEPT ![p] = TRUE]
                 /\ UNCHANGED <<kv, cacheArray>>
            ELSE /\ cacheArray' = [cacheArray EXCEPT ![p] = arr]
                 /\ pc' = [pc EXCEPT ![p] = "take_put"]
                 /\ UNCHANGED <<kv, metadata, cacheType, metadataChanged>>
    /\ UNCHANGED <<world, noCache, params, cacheKey, imageData, chain, response, history>>

\* The found slot is cleared, the count decremented and the array put back.
\* A record from main is answered after updateMetadata; a record from the
\* buffer is answered at once and the maintenance runs in the background;
\* without a record the handler goes on to the next pattern.
GetImageFromCache_Put(p) ==
    /\ pc[p] = "take_put"
    /\ LET t == cacheType[p]
           arr == cacheArray[p]
           s == Scan(arr, metadata[p][Field(t)].currentPointer)
           img == Slot(arr, s.foundIndex)
           m2 == TakeMeta(metadata[p], t, s) IN
       /\ kv' = Put(kv, StorageKeyOf(cacheKey[p], t), ClearSlot(arr, s.foundIndex))
       /\ metadata' = [metadata EXCEPT ![p] = m2]
       /\ cacheArray' = [cacheArray EXCEPT ![p] = << >>]
       /\ metadataChanged' = [metadataChanged EXCEPT ![p] = TRUE]
       /\ IF Truthy(img)
          THEN IF t = "main"
               THEN /\ imageData' = [imageData EXCEPT ![p] = img]
                    /\ pc' = [pc EXCEPT ![p] = "main_meta"]
                    /\ UNCHANGED <<cacheType, chain, response, served>>
               ELSE /\ response' = [response EXCEPT ![p] =
                                      [status |-> "ok", from |-> "buffer", image |-> img]]
                    /\ RunNext(p, BufferChain)
                    /\ Serve(img)
                    /\ UNCHANGED <<cacheType, imageData>>
          ELSE LET d == NoImage(m2, noCache[p], t) IN
               /\ pc' = [pc EXCEPT ![p] = d[1]]
               /\ cacheType' = [cacheType EXCEPT ![p] = d[2]]
               /\ UNCHANGED <<imageData, chain, response, served>>
    /\ UNCHANGED <<upstream, noCache, params, cacheKey, history>>

\* Pattern 1: updateMetadata, then refillCacheSystem is scheduled if main is
\* now empty and the buffer is not, and the record is returned.
UpdateMetadata_Main(p) ==
    /\ pc[p] = "main_meta"
    /\ kv' = Put(kv, MetaKeyOf(cacheKey[p]), metadata[p])
    /\ response' = [response EXCEPT ![p] =
                      [status |-> "ok", from |-> "main", image |-> imageData[p]]]
    /\ imageData' = [imageData EXCEPT ![p] = Null]
    /\ RunNext(p, RefreshChain(metadata[p]))
    /\ Serve(imageData[p])
    /\ UNCHANGED <<upstream, noCache, params, cacheKey, cacheType, metadata, cacheArray, metadataChanged,
                   history>>

\* Pattern 2, in the background: updateMetadata after the serve from the buffer.
UpdateMetadata_Buffer(p) ==
    /\ pc[p] = "bg_meta"
    /\ kv' = Put(kv, MetaKeyOf(cacheKey[p]), metadata[p])
    /\ RunNext(p, chain[p])
    /\ UNCHANGED <<world, noCache, params, cacheKey, cacheType, metadata, cacheArray, imageData,
                   metadataChanged, response, history>>

\* Pattern 3: fetchImageFromUnsplash answers with one image; the cold chain
\* is scheduled when both tiers are empty.
FetchImageFromUnsplash_Ok(p) ==
    /\ pc[p] = "fetch_image"
    /\ response' = [response EXCEPT ![p] =
                      [status |-> "ok", from |-> "upstream", image |-> LiveImage]]
    /\ RunNext(p, ColdChain(metadata[p]))
    /\ CallAnswered
    /\ UNCHANGED <<kv, clock, reqs, faults, serial, filters, flaky, origin, circuitBreaker, metricsUpdateQueue, metricsUpdateTimer, flush, called, served,
                   noCache, params, cacheKey, cacheType, metadata, cacheArray, imageData,
                   metadataChanged, history>>

\* Pattern 3: fetchImageFromUnsplash throws; the handler answers with an error.
FetchImageFromUnsplash_Fail(p) ==
    /\ pc[p] = "fetch_image"
    /\ faults < FaultBudget
    /\ faults' = faults + 1
    /\ \E message \in UpstreamErrors :
          response' = [response EXCEPT ![p] = ErrorResponse("upstream", message)]
    /\ pc' = [pc EXCEPT ![p] = "done"]
    /\ CallFailed
    /\ UNCHANGED <<serial, filters, flaky, circuitBreaker, metricsUpdateQueue, metricsUpdateTimer, flush, called, served, origin, kv, clock, reqs, noCache, params, cacheKey, cacheType, metadata, cacheArray,
                   imageData, metadataChanged, chain, history>>

----------------------------------------------------------------------------
\* copyBufferToMain(metadata).

\* Mutant of PromoteMeta: the pointer of main is not reset.
PromoteMetaKeepPointer(m) ==
    SetTier(m, "main", m.bufferCache.count, m.mainCache.currentPointer)

\* Mutant of PromoteMeta: the promotion empties the buffer tier's count.
PromoteMetaDrainsBuffer(m) ==
    SetTier(SetTier(m, "main", m.bufferCache.count, 0), "buffer", 0, 0)

\* metadata.mainCache.count = metadata.bufferCache.count; currentPointer = 0
PromoteMeta(m) == SetTier(m, "main", m.bufferCache.count, 0)

\* The get of the buffer array; a missing array throws.
CopyBufferToMain_Get(p) ==
    /\ pc[p] = "cp_get"
    /\ IF Has(kv, BufferKeyOf(cacheKey[p]))
       THEN /\ cacheArray' = [cacheArray EXCEPT ![p] = kv[BufferKeyOf(cacheKey[p])]]
            /\ pc' = [pc EXCEPT ![p] = "cp_put"]
            /\ UNCHANGED <<chain, failed>>
       ELSE /\ Throw(p)
            /\ UNCHANGED cacheArray
    /\ UNCHANGED <<kv, world, noCache, params, cacheKey, cacheType, metadata, imageData, metadataChanged,
                   response, entry, batches, solo, prior>>

\* The put of the buffer array as the main array, then the metadata update.
CopyBufferToMain_Put(p) ==
    /\ pc[p] = "cp_put"
    /\ kv' = Put(kv, MainKeyOf(cacheKey[p]), cacheArray[p])
    /\ metadata' = [metadata EXCEPT ![p] = PromoteMeta(metadata[p])]
    /\ cacheArray' = [cacheArray EXCEPT ![p] = << >>]
    /\ pc' = [pc EXCEPT ![p] = "cp_meta"]
    /\ UNCHANGED <<world, noCache, params, cacheKey, cacheType, imageData, metadataChanged, chain,
                   response, history>>

\* updateMetadata at the end of copyBufferToMain.
CopyBufferToMain_Meta(p) ==
    /\ pc[p] = "cp_meta"
    /\ kv' = Put(kv, MetaKeyOf(cacheKey[p]), metadata[p])
    /\ RunNext(p, chain[p])
    /\ UNCHANGED <<world, noCache, params, cacheKey, cacheType, metadata, cacheArray, imageData,
                   metadataChanged, response, history>>

----------------------------------------------------------------------------
\* refillBufferCache(metadata).

\* The records of the bulk response stamped c, projected to what is stored.
OptimizedImages(n, c) == [i \in 1..n |-> c * IdStride + i]

\* The stamp of the bulk response a stored record came with.
StampOf(id) == (id - 1) \div IdStride

\* Mutant of RefilledMeta: the pointer of the buffer is left where it was.
RefilledMetaKeepPointer(m, images, now) ==
    [m EXCEPT !.bufferCache = [count |-> Len(images),
                               currentPointer |-> m.bufferCache.currentPointer],
              !.isRefilling = FALSE,
              !.lastRefillTime = now]

\* The metadata after the buffer array was written: the count is the number
\* of records received.
RefilledMeta(m, images, now) ==
    [m EXCEPT !.bufferCache = [count |-> Len(images), currentPointer |-> 0],
              !.isRefilling = FALSE,
              !.lastRefillTime = now]

\* Mutant of RefillGuard: the guard never holds.
RefillGuardOff(m) == FALSE

\* Mutant of RefillGuard: the flag is read from the store when the refill
\* begins.
RefillGuardFromStore(m) == kv[MetaKeyOf(HomeKey)].isRefilling

\* if (metadata.isRefilling)
RefillGuard(m) == m.isRefilling

\* The guard: a refill is in progress, the call returns the metadata as it is.
RefillBufferCache_Skip(p) ==
    /\ pc[p] = "rf_start"
    /\ RefillGuard(metadata[p])
    /\ RunNext(p, chain[p])
    /\ UNCHANGED <<kv, world, noCache, params, cacheKey, cacheType, metadata, cacheArray, imageData,
                   metadataChanged, response, history>>

\* The buffer tier as the refill finds it: the stored array and the tier's
\* metadata.  It is recorded in the behaviours in which puts may fail.
BufferTierNow(p) ==
    IF flaky THEN <<kv[BufferKeyOf(cacheKey[p])], metadata[p].bufferCache>> ELSE << >>

\* Mutant of MarkRefilling: the flag is not set before the fetch.
MarkRefillingLater(m) == m

\* metadata.isRefilling = true
MarkRefilling(m) == [m EXCEPT !.isRefilling = TRUE]

\* isRefilling = true is set and persisted before the fetch.
RefillBufferCache_Mark(p) ==
    /\ pc[p] = "rf_start"
    /\ ~RefillGuard(metadata[p])
    /\ LET m2 == MarkRefilling(metadata[p]) IN
       /\ metadata' = [metadata EXCEPT ![p] = m2]
       /\ kv' = Put(kv, MetaKeyOf(cacheKey[p]), m2)
    /\ prior' = [prior EXCEPT ![p] = BufferTierNow(p)]
    /\ pc' = [pc EXCEPT ![p] = "rf_fetch"]
    /\ UNCHANGED <<world, noCache, params, cacheKey, cacheType, cacheArray, imageData, metadataChanged,
                   chain, response, entry, batches, failed, solo>>

\* The bulk fetch answers with n records.  None: the flag is cleared and
\* only the metadata is written.
RefillBufferCache_Fetch(p, n) ==
    /\ pc[p] = "rf_fetch"
    /\ IF n = CAPACITY
       THEN UNCHANGED faults
       ELSE faults < FaultBudget /\ faults' = faults + 1
    /\ clock' = clock + 1
    /\ origin' = Append(origin, cacheKey[p])
    /\ batches' = [batches EXCEPT ![p] = Append(@, n)]
    /\ IF n = 0
       THEN /\ metadata' = [metadata EXCEPT ![p].isRefilling = FALSE]
            /\ pc' = [pc EXCEPT ![p] = "rf_meta"]
            /\ UNCHANGED cacheArray
       ELSE /\ cacheArray' = [cacheArray EXCEPT ![p] = OptimizedImages(n, clock')]
            /\ pc' = [pc EXCEPT ![p] = "rf_put"]
            /\ UNCHANGED metadata
    /\ CallAnswered
    /\ UNCHANGED <<serial, filters, flaky, circuitBreaker, metricsUpdateQueue, metricsUpdateTimer, flush, called, served, kv, reqs, noCache, params, cacheKey, cacheType, imageData, metadataChanged, chain,
                   response, entry, failed, solo, prior>>

\* The bulk fetch fails (transport error or a status that is not ok): the
\* catch block clears the flag.
RefillBufferCache_FetchError(p) ==
    /\ pc[p] = "rf_fetch"
    /\ faults < FaultBudget
    /\ faults' = faults + 1
    /\ batches' = [batches EXCEPT ![p] = Append(@, -1)]
    /\ metadata' = [metadata EXCEPT ![p].isRefilling = FALSE]
    /\ pc' = [pc EXCEPT ![p] = "rf_catch"]
    /\ CallFailed
    /\ UNCHANGED <<serial, filters, flaky, circuitBreaker, metricsUpdateQueue, metricsUpdateTimer, flush, called, served, origin, kv, clock, reqs, noCache, params, cacheKey, cacheType, cacheArray, imageData,
                   metadataChanged, chain, response, entry, failed, solo, prior>>

\* The put of the new buffer array, then the metadata update.
RefillBufferCache_Put(p) ==
    /\ pc[p] = "rf_put"
    /\ kv' = Put(kv, BufferKeyOf(cacheKey[p]), cacheArray[p])
    /\ metadata' = [metadata EXCEPT ![p] = RefilledMeta(@, cacheArray[p], clock)]
    /\ cacheArray' = [cacheArray EXCEPT ![p] = << >>]
    /\ pc' = [pc EXCEPT ![p] = "rf_meta"]
    /\ UNCHANGED <<world, noCache, params, cacheKey, cacheType, imageData, metadataChanged, chain,
                   response, history>>

\* updateMetadata at the end of a refill; the call returns.
RefillBufferCache_Meta(p) ==
    /\ pc[p] = "rf_meta"
    /\ kv' = Put(kv, MetaKeyOf(cacheKey[p]), metadata[p])
    /\ prior' = [prior EXCEPT ![p] = << >>]
    /\ RunNext(p, chain[p])
    /\ UNCHANGED <<world, noCache, params, cacheKey, cacheType, metadata, cacheArray, imageData,
                   metadataChanged, response, entry, batches, failed, solo>>

\* updateMetadata in the catch block; the error is thrown again.
RefillBufferCache_Catch(p) ==
    /\ pc[p] = "rf_catch"
    /\ kv' = Put(kv, MetaKeyOf(cacheKey[p]), metadata[p])
    /\ prior' = [prior EXCEPT ![p] = << >>]
    /\ Throw(p)
    /\ UNCHANGED <<world, noCache, params, cacheKey, cacheType, metadata, cacheArray, imageData,
                   metadataChanged, response, entry, batches, solo>>

----------------------------------------------------------------------------
\* Failures of env.NAZKVHUBSTORE.put, in the behaviours where puts may fail.

PutFails ==
    /\ flaky
    /\ faults < FaultBudget
    /\ faults' = faults + 1
    /\ UNCHANGED <<kv, clock, reqs, serial, filters, flaky, origin, circuitBreaker, metricsUpdateQueue, metricsUpdateTimer, flush, called, served, streak>>

\* A put fails before the response: the catch of handleRandomRequest
\* answers with an error and nothing is scheduled.
HandleRandomRequest_PutError(p) ==
    /\ pc[p] \in {"init_main", "init_buffer", "init_meta", "take_put", "main_meta"}
    /\ PutFails
    /\ response' = [response EXCEPT ![p] = ErrorResponse("none", PutError)]
    /\ pc' = [pc EXCEPT ![p] = "done"]
    /\ cacheArray' = [cacheArray EXCEPT ![p] = << >>]
    /\ imageData' = [imageData EXCEPT ![p] = Null]
    /\ UNCHANGED <<noCache, params, cacheKey, cacheType, metadata, metadataChanged, chain,
                   history>>

\* Pattern 2, in the background: updateMetadata fails, the rest does not run.
UpdateMetadata_BufferError(p) ==
    /\ pc[p] = "bg_meta"
    /\ PutFails
    /\ Throw(p)
    /\ UNCHANGED <<noCache, params, cacheKey, cacheType, metadata, cacheArray, imageData,
                   metadataChanged, response, entry, batches, solo, prior>>

\* copyBufferToMain: the put of the main array fails; nothing was changed.
CopyBufferToMain_PutError(p) ==
    /\ pc[p] = "cp_put"
    /\ PutFails
    /\ Throw(p)
    /\ cacheArray' = [cacheArray EXCEPT ![p] = << >>]
    /\ UNCHANGED <<noCache, params, cacheKey, cacheType, metadata, imageData,
                   metadataChanged, response, entry, batches, solo, prior>>

\* copyBufferToMain: updateMetadata fails after the main array was written.
CopyBufferToMain_MetaError(p) ==
    /\ pc[p] = "cp_meta"
    /\ PutFails
    /\ Throw(p)
    /\ UNCHANGED <<noCache, params, cacheKey, cacheType, metadata, cacheArray, imageData,
                   metadataChanged, response, entry, batches, solo, prior>>

\* refillBufferCache: the updateMetadata that persists isRefilling = true
\* fails; the catch block clears the flag.
RefillBufferCache_MarkError(p) ==
    /\ pc[p] = "rf_start"
    /\ ~RefillGuard(metadata[p])
    /\ PutFails
    /\ prior' = [prior EXCEPT ![p] = BufferTierNow(p)]
    /\ pc' = [pc EXCEPT ![p] = "rf_catch"]
    /\ UNCHANGED <<noCache, params, cacheKey, cacheType, metadata, cacheArray, imageData,
                   metadataChanged, chain, response, entry, batches, failed, solo>>

\* refillBufferCache: the put of the buffer array, or the updateMetadata
\* after it or after an empty response, fails; the catch block clears the
\* flag.
RefillBufferCache_PutError(p) ==
    /\ pc[p] \in {"rf_put", "rf_meta"}
    /\ PutFails
    /\ metadata' = [metadata EXCEPT ![p].isRefilling = FALSE]
    /\ cacheArray' = [cacheArray EXCEPT ![p] = << >>]
    /\ pc' = [pc EXCEPT ![p] = "rf_catch"]
    /\ UNCHANGED <<noCache, params, cacheKey, cacheType, imageData, metadataChanged, chain,
                   response, history>>

\* refillBufferCache: the updateMetadata of the catch block fails too; its
\* error is the one thrown.
RefillBufferCache_CatchError(p) ==
    /\ pc[p] = "rf_catch"
    /\ PutFails
    /\ prior' = [prior EXCEPT ![p] = << >>]
    /\ Throw(p)
    /\ UNCHANGED <<noCache, params, cacheKey, cacheType, metadata, cacheArray, imageData,
                   metadataChanged, response, entry, batches, solo>>

\* The steps that are failures of a put.
PutErrors(p) ==
    \/ HandleRandomRequest_PutError(p)
    \/ UpdateMetadata_BufferError(p)
    \/ CopyBufferToMain_PutError(p)
    \/ CopyBufferToMain_MetaError(p)
    \/ RefillBufferCache_MarkError(p)
    \/ RefillBufferCache_PutError(p)
    \/ RefillBufferCache_CatchError(p)

----------------------------------------------------------------------------
\* The invocation ends: its objects are gone.
Finish(p) ==
    /\ pc[p] = "done"
    /\ pc' = [pc EXCEPT ![p] = "idle"]
    /\ noCache' = [noCache EXCEPT ![p] = FALSE]
    /\ params' = [params EXCEPT ![p] = HomeParams]
    /\ cacheKey' = [cacheKey EXCEPT ![p] = HomeKey]
    /\ cacheType' = [cacheType EXCEPT ![p] = "none"]
    /\ metadata' = [metadata EXCEPT ![p] = ZeroMeta]
    /\ response' = [response EXCEPT ![p] = NoResponse]
    /\ metadataChanged' = [metadataChanged EXCEPT ![p] = FALSE]
    /\ entry' = [entry EXCEPT ![p] = <<0, 0>>]
    /\ batches' = [batches EXCEPT ![p] = << >>]
    /\ failed' = [failed EXCEPT ![p] = FALSE]
    /\ solo' = [solo EXCEPT ![p] = TRUE]
    /\ prior' = [prior EXCEPT ![p] = << >>]
    /\ UNCHANGED <<kv, world, cacheArray, imageData, chain>>

\* The steps an invocation takes when no refill is marked as running.
Steps(p) ==
    \/ \E nc \in BOOLEAN, prm \in filters : HandleRandomRequest(p, nc, prm)
    \/ GetOrInitializeMetadata_Get(p)
    \/ GetOrInitializeMetadata_PutMain(p)
    \/ GetOrInitializeMetadata_PutBuffer(p)
    \/ GetOrInitializeMetadata_PutMeta(p)
    \/ GetImageFromCache_Get(p)
    \/ GetImageFromCache_Put(p)
    \/ UpdateMetadata_Main(p)
    \/ UpdateMetadata_Buffer(p)
    \/ FetchImageFromUnsplash_Ok(p)
    \/ FetchImageFromUnsplash_Fail(p)
    \/ CopyBufferToMain_Get(p)
    \/ CopyBufferToMain_Put(p)
    \/ CopyBufferToMain_Meta(p)
    \/ RefillBufferCache_Mark(p)
    \/ \E n \in BatchSizes : RefillBufferCache_Fetch(p, n)
    \/ RefillBufferCache_FetchError(p)
    \/ RefillBufferCache_Put(p)
    \/ RefillBufferCache_Meta(p)
    \/ RefillBufferCache_Catch(p)
    \/ Finish(p)

Next ==
    \E p \in Procs :
        \/ Steps(p)
        \/ RefillBufferCache_Skip(p)

Spec == Init /\ [][Next]_vars

\* The same program when the clients send one request at a time.
InitSerial == Start(TRUE, {HomeParams}, FALSE)

\* One request at a time, a refill never finds the flag set: every refill
\* of the requests before has reset it.
NextSerial == \E p \in Procs : Steps(p)

SpecSerial == InitSerial /\ [][NextSerial]_vars

\* One request at a time, for several partitions: no filter, another
\* orientation, Photo of the day, and a request the handler rejects.
PartitionFilters ==
    {HomeParams,
     [HomeParams EXCEPT !.orientation = "portrait"],
     [HomeParams EXCEPT !.addPhotoOfTheDay = TRUE],
     [HomeParams EXCEPT !.addPhotoOfTheDay = TRUE, !.collectionIds = OtherCollection]}

InitPartitions == Start(TRUE, PartitionFilters, FALSE)

NextPartitions ==
    \E p \in Procs :
        \/ Steps(p)
        \/ \E prm \in filters : HandleRandomRequest_Reject(p, prm)

SpecPartitions == InitPartitions /\ [][NextPartitions]_vars

\* One request at a time, on a store whose puts may fail.
InitFlaky == Start(TRUE, {HomeParams}, TRUE)

NextFlaky ==
    \E p \in Procs :
        \/ Steps(p)
        \/ PutErrors(p)

SpecFlaky == InitFlaky /\ [][NextFlaky]_vars

----------------------------------------------------------------------------
\* The stored state of the partition, once it is initialised.

Stored == Has(kv, MetaKey) /\ Has(kv, MainKey) /\ Has(kv, BufferKey)

AllAtRest == \A p \in Procs : AtRest(p)

\* The pointers the metadata m holds are slot indices.
PointersOf(m) == {m.mainCache.currentPointer, m.bufferCache.currentPointer}

----------------------------------------------------------------------------
\* C1: at rest (no request and no background task in flight), for both
\* tiers the persisted count equals the number of non-empty slots of the
\* tier's persisted array.
C1_CountsMatchAtRest ==
    (AllAtRest /\ Stored) =>
        /\ kv[MetaKey].mainCache.count = Occupied(kv[MainKey])
        /\ kv[MetaKey].bufferCache.count = Occupied(kv[BufferKey])

\* C2: in every reachable state the persisted count of both tiers is
\* between 0 and CAPACITY, whatever number of records upstream returned.
C2_CountWithinCapacity ==
    Has(kv, MetaKey) =>
        /\ kv[MetaKey].mainCache.count \in 0..CAPACITY
        /\ kv[MetaKey].bufferCache.count \in 0..CAPACITY

\* C3: in every reachable state the currentPointer of both tiers, in the
\* persisted metadata and in every invocation's metadata object, is an
\* integer in [0, CAPACITY).
C3_PointerInRange ==
    /\ Has(kv, MetaKey) => PointersOf(kv[MetaKey]) \subseteq 0..(CAPACITY - 1)
    /\ \A p \in Procs : PointersOf(metadata[p]) \subseteq 0..(CAPACITY - 1)

\* C3 witness: a take from main found its record in slot 0, so the pointer
\* wrapped around from the last slot; the buffer pointer was reset by a refill.
C3_Witness ==
    \E p \in Procs :
        /\ pc[p] = "main_meta"
        /\ metadata[p].mainCache.currentPointer = 0
        /\ metadata[p].bufferCache.count > 0
        /\ Truthy(imageData[p])

----------------------------------------------------------------------------
\* generateCacheKey on its own: each invocation holds the params of one call
\* and makes it.

GenerateCacheKey_Call(p) ==
    /\ pc[p] = "key"
    /\ cacheKey' = [cacheKey EXCEPT ![p] = GenerateCacheKey(params[p])]
    /\ pc' = [pc EXCEPT ![p] = "keyed"]
    /\ UNCHANGED <<kv, world, noCache, params, cacheType, metadata, cacheArray, imageData,
                   metadataChanged, chain, response, history>>

InitKey ==
    /\ kv = << >>
    /\ clock = 0
    /\ reqs = 0
    /\ faults = 0
    /\ serial = FALSE
    /\ filters = KeyInputs
    /\ flaky = FALSE
    /\ origin = << >>
    /\ circuitBreaker = CircuitBreaker
    /\ streak = 0
    /\ served = {}
    /\ metricsUpdateQueue = NoUpdates
    /\ metricsUpdateTimer = FALSE
    /\ flush = NoFlush
    /\ called = NoUpdates
    /\ pc = [p \in Procs |-> "key"]
    /\ noCache = [p \in Procs |-> FALSE]
    /\ params \in [Procs -> KeyInputs]
    /\ cacheKey = [p \in Procs |-> ""]
    /\ cacheType = [p \in Procs |-> "none"]
    /\ metadata = [p \in Procs |-> ZeroMeta]
    /\ cacheArray = [p \in Procs |-> << >>]
    /\ imageData = [p \in Procs |-> Null]
    /\ metadataChanged = [p \in Procs |-> FALSE]
    /\ chain = [p \in Procs |-> << >>]
    /\ response = [p \in Procs |-> NoResponse]
    /\ entry = [p \in Procs |-> <<0, 0>>]
    /\ batches = [p \in Procs |-> << >>]
    /\ failed = [p \in Procs |-> FALSE]
    /\ solo = [p \in Procs |-> TRUE]
    /\ prior = [p \in Procs |-> << >>]

NextKey == \E p \in Procs : GenerateCacheKey_Call(p)

SpecKey == InitKey /\ [][NextKey]_vars

----------------------------------------------------------------------------
\* getImageFromCache on its own: one call, on a tier whose stored array and
\* metadata were left by earlier requests.  A stored array is what a refill
\* of 1..CAPACITY+1 records (or the initialisation) wrote, with any of its
\* slots emptied since; the count is any value a refill or a stale metadata
\* write can leave.

StoredArrays ==
    UNION {{[i \in 1..len |-> IF i \in S THEN IdStride + i ELSE Null] :
              S \in SUBSET (1..len)} : len \in 1..(CAPACITY + 1)}

\* The arrays of the partition are not in the store: the get returns null.
NoArray == << >>

\* A call about to run from pc at, on one of the arrays of stored.
TakeStart(at, stored) ==
    \E t \in {"main", "buffer"}, c \in 0..(CAPACITY + 1),
       ptr \in 0..(CAPACITY - 1), arr \in stored :
        LET m == SetTier(ZeroMeta, t, c, ptr) IN
        /\ kv = [k \in (IF arr = NoArray THEN {MetaKey} ELSE {MetaKey, MainKey, BufferKey}) |->
                   IF k = MetaKey THEN m
                   ELSE IF k = StorageKey(t) THEN arr ELSE EmptyArray]
        /\ clock = 1
        /\ reqs = MaxRequests
        /\ faults = 0
        /\ serial = FALSE
        /\ filters = {HomeParams}
        /\ flaky = FALSE
        /\ circuitBreaker = CircuitBreaker
        /\ streak = 0
        /\ served = {}
        /\ metricsUpdateQueue = NoUpdates
        /\ metricsUpdateTimer = FALSE
        /\ flush = NoFlush
        /\ called = NoUpdates
        /\ origin = << >>
        /\ pc = [p \in Procs |-> IF p = 1 THEN at ELSE "idle"]
        /\ noCache = [p \in Procs |-> FALSE]
        /\ params = [p \in Procs |-> HomeParams]
        /\ cacheKey = [p \in Procs |-> HomeKey]
        /\ cacheType = [p \in Procs |-> IF p = 1 THEN t ELSE "none"]
        /\ metadata = [p \in Procs |-> IF p = 1 THEN m ELSE ZeroMeta]
        /\ cacheArray = [p \in Procs |-> << >>]
        /\ imageData = [p \in Procs |-> Null]
        /\ metadataChanged = [p \in Procs |-> FALSE]
        /\ chain = [p \in Procs |-> << >>]
        /\ response = [p \in Procs |-> NoResponse]
        /\ entry = [p \in Procs |-> IF p = 1
                                    THEN <<m.mainCache.count, m.bufferCache.count>>
                                    ELSE <<0, 0>>]
        /\ batches = [p \in Procs |-> << >>]
        /\ failed = [p \in Procs |-> FALSE]
        /\ solo = [p \in Procs |-> TRUE]
        /\ prior = [p \in Procs |-> << >>]

InitTake == TakeStart("take_get", StoredArrays)

NextTake ==
    \E p \in Procs :
        \/ GetImageFromCache_Get(p)
        \/ GetImageFromCache_Put(p)

SpecTake == InitTake /\ [][NextTake]_vars

----------------------------------------------------------------------------
\* getImageFromCache of the single-partition variant (src/src/index.js), whose
\* arrays are under the keys MAINCACHE and BUFFERCACHE: here the arrays of the
\* home partition.  matching: the records matchesCriteria accepts for the
\* request's params.
GetImageFromCache_Single(p, matching) ==
    /\ pc[p] = "single_get"
    /\ LET t == cacheType[p]
           m == metadata[p]
           cache == m[Field(t)] IN
       IF TierEmpty(cache)
       THEN /\ pc' = [pc EXCEPT ![p] = "done"]
            /\ metadataChanged' = [metadataChanged EXCEPT ![p] = FALSE]
            /\ UNCHANGED <<kv, metadata, imageData>>
       ELSE IF ~Has(kv, StorageKey(t))
       THEN /\ kv' = Put(kv, StorageKey(t), EmptyArray)
            /\ metadata' = [metadata EXCEPT ![p] = SetTier(m, t, 0, cache.currentPointer)]
            /\ pc' = [pc EXCEPT ![p] = "done"]
            /\ metadataChanged' = [metadataChanged EXCEPT ![p] = TRUE]
            /\ UNCHANGED imageData
       ELSE LET arr == kv[StorageKey(t)]
                s == ScanSingle(arr, matching, cache.currentPointer, cache.count) IN
            IF s.running
            THEN /\ pc' = [pc EXCEPT ![p] = "single_scan"]
                 /\ UNCHANGED <<kv, metadata, imageData, metadataChanged>>
            ELSE IF s.foundIndex = -1
            THEN /\ metadata' = [metadata EXCEPT ![p] =
                                   SetTier(m, t, cache.count, s.currentPointer)]
                 /\ pc' = [pc EXCEPT ![p] = "done"]
                 /\ metadataChanged' = [metadataChanged EXCEPT ![p] = TRUE]
                 /\ UNCHANGED <<kv, imageData>>
            ELSE /\ kv' = Put(kv, StorageKey(t), ClearSlot(arr, s.foundIndex))
                 /\ metadata' = [metadata EXCEPT ![p] = TakeMeta(m, t, s)]
                 /\ imageData' = [imageData EXCEPT ![p] = Slot(arr, s.foundIndex)]
                 /\ pc' = [pc EXCEPT ![p] = "done"]
                 /\ metadataChanged' = [metadataChanged EXCEPT ![p] = TRUE]
    /\ UNCHANGED <<world, noCache, params, cacheKey, cacheType, cacheArray, chain, response,
                   history>>

\* The records an array holds.
RecordsOf(arr) == {arr[j] : j \in 1..Len(arr)} \ {Null}

\* One call of either variant, on any stored array or on none.
InitScan ==
    \E at \in {"take_get", "single_get"} : TakeStart(at, StoredArrays \cup {NoArray})

NextScan ==
    \E p \in Procs :
        \/ GetImageFromCache_Get(p)
        \/ GetImageFromCache_Put(p)
        \/ \E matching \in SUBSET (IF Has(kv, StorageKey(cacheType[p]))
                                    THEN RecordsOf(kv[StorageKey(cacheType[p])])
                                    ELSE {}) :
               GetImageFromCache_Single(p, matching)

SpecScan == InitScan /\ [][NextScan]_vars

----------------------------------------------------------------------------
\* The record a getImageFromCache call on tier cacheType[p] hands to the
\* handler in the step that ends the call (Null: none).
Returned(p) == IF cacheType[p] = "main" THEN imageData'[p] ELSE response'[p].image

OtherTier(t) == IF t = "main" THEN "buffer" ELSE "main"

\* C4: a getImageFromCache call that returns a record decrements that
\* tier's count by exactly 1, empties exactly the slot the record came from
\* (the pointer is left on it), and leaves the other tier's count, pointer
\* and stored array unchanged.
C4_TakeConservation ==
    [][\A p \in Procs :
         (pc[p] = "take_put" /\ pc'[p] # "take_put" /\ Truthy(Returned(p))) =>
            LET t == cacheType[p]
                o == OtherTier(t) IN
            /\ metadata'[p][Field(t)].count = metadata[p][Field(t)].count - 1
            /\ metadata'[p][Field(o)] = metadata[p][Field(o)]
            /\ \E i \in 1..Len(cacheArray[p]) :
                  /\ cacheArray[p][i] = Returned(p)
                  /\ metadata'[p][Field(t)].currentPointer = i - 1
                  /\ kv'[StorageKey(t)] = [cacheArray[p] EXCEPT ![i] = Null]
            /\ kv'[StorageKey(o)] = kv[StorageKey(o)]]_vars

\* C4 witness: a call on main has returned a record and left fewer records
\* than the count it started from.
C4_Witness ==
    \E p \in Procs :
        /\ pc[p] = "main_meta"
        /\ Truthy(imageData[p])
        /\ metadata[p].mainCache.count = entry[p][1] - 1

C6_RefillGuardNoOp ==
    [][\A p \in Procs :
         (pc[p] = "rf_start" /\ metadata[p].isRefilling /\ pc'[p] # "rf_start") =>
            /\ kv' = kv
            /\ metadata'[p] = metadata[p]
            /\ pc'[p] \notin {"rf_fetch", "rf_put", "rf_meta", "rf_catch"}
            /\ batches' = batches
            /\ clock' = clock]_vars

\* C6 witness: the first refill of a cold chain was skipped by the guard
\* (no bulk fetch was made) and the chain is at its promotion.
C6_Witness ==
    \E p \in Procs :
        /\ pc[p] = "cp_get"
        /\ response[p].from = "upstream"
        /\ metadata[p].isRefilling
        /\ batches[p] = << >>

\* C7: when a tier's count is > 0 but its stored array holds no record,
\* getImageFromCache returns no record, resets the count to 0 and reports
\* metadataChanged = true.
C7_SelfHealing ==
    [][\A p \in Procs :
         LET t == cacheType[p] IN
         /\ (/\ pc[p] = "take_get" /\ pc'[p] # "take_get"
             /\ metadata[p][Field(t)].count > 0
             /\ Has(kv, StorageKey(t))
             /\ Occupied(kv[StorageKey(t)]) = 0) =>
               \/ pc'[p] = "take_put"
               \/ /\ metadata'[p][Field(t)].count = 0
                  /\ metadataChanged'[p]
         /\ (/\ pc[p] = "take_put" /\ pc'[p] # "take_put"
             /\ Occupied(cacheArray[p]) = 0) =>
               /\ ~Truthy(Returned(p))
               /\ metadata'[p][Field(t)].count = 0
               /\ metadataChanged'[p]]_vars

\* C8: cold start.  The only request of a partition never seen before, not
\* a bypass, whose two bulk fetches each returned at least one record and
\* whose background chain ran to its end, got an image fetched live and
\* leaves a non-empty main tier of at most CAPACITY images and a non-empty
\* buffer tier.
C8_ColdStart ==
    \A p \in Procs :
        (/\ reqs = 1 /\ pc[p] = "done" /\ ~noCache[p] /\ ~failed[p]
         /\ response[p].status = "ok"
         /\ \A i \in DOMAIN batches[p] : batches[p][i] >= 1) =>
            /\ response[p].from = "upstream"
            /\ batches[p] # << >>
            /\ kv[MetaKey].mainCache.count \in 1..CAPACITY
            /\ Occupied(kv[MainKey]) \in 1..CAPACITY
            /\ kv[MetaKey].bufferCache.count >= 1
            /\ Occupied(kv[BufferKey]) >= 1

\* C9: a request that takes a record from main returns that record, one of
\* the records of the main array it read; the decremented count is
\* persisted in the step that ends with the response (no response exists
\* before); the promote-then-refill is scheduled if and only if main's
\* count is now 0 and the buffer's count is > 0, and nothing else is
\* scheduled.
C9_ServeFromMain ==
    /\ [](\A p \in Procs :
            pc[p] = "main_meta" =>
               /\ response[p] = NoResponse
               /\ Truthy(imageData[p])
               /\ entry[p][1] > 0
               /\ metadata[p].mainCache.count = entry[p][1] - 1)
    /\ [][\A p \in Procs :
            /\ (pc[p] = "take_put" /\ pc'[p] = "main_meta") =>
                  \E i \in 1..Len(cacheArray[p]) : cacheArray[p][i] = imageData'[p]
            /\ (pc[p] = "main_meta" /\ pc'[p] # "main_meta") =>
                  /\ response'[p] = [status |-> "ok", from |-> "main",
                                     image |-> imageData[p]]
                  /\ kv'[MetaKey] = metadata[p]
                  /\ IF metadata[p].mainCache.count = 0
                        /\ metadata[p].bufferCache.count > 0
                     THEN pc'[p] = "cp_get" /\ chain'[p] = <<"refillBufferCache">>
                     ELSE pc'[p] = "done" /\ chain'[p] = << >>]_vars

\* C9 witness: a request served the last record of main while the buffer
\* held records, and its promote-then-refill has started.
C9_Witness ==
    \E p \in Procs :
        /\ pc[p] = "cp_get"
        /\ response[p].from = "main"
        /\ metadata[p].mainCache.count = 0
        /\ chain[p] = <<"refillBufferCache">>

C11_FlagClearsAtRest ==
    (AllAtRest /\ faults = 0 /\ Has(kv, MetaKey)) => ~kv[MetaKey].isRefilling

\* C12: generateCacheKey is a function of (orientation, collectionIds,
\* addPhotoOfTheDay) alone: a field that is absent, empty or at its default
\* ('default', 'none', false) is left out, the others appear as field=value
\* joined by '_' in the order addPhotoOfTheDay, collectionIds, orientation,
\* and the key is "default" when no field is left; so two calls whose
\* filters differ only in how a default is written get the same key.
C12_KeyStability ==
    LET Plain(v, dflt) == IF v \in {NullString, "", dflt} THEN "" ELSE v
        Normal(prm) == <<prm.addPhotoOfTheDay, Plain(prm.collectionIds, "none"),
                         Plain(prm.orientation, "default")>>
        Pairs(prm) ==
            (IF prm.addPhotoOfTheDay THEN <<"addPhotoOfTheDay=true">> ELSE << >>)
            \o (IF Plain(prm.collectionIds, "none") = "" THEN << >>
                ELSE <<"collectionIds=" \o prm.collectionIds>>)
            \o (IF Plain(prm.orientation, "default") = "" THEN << >>
                ELSE <<"orientation=" \o prm.orientation>>)
        Expected(prm) ==
            LET e == Pairs(prm) IN
            CASE Len(e) = 0 -> "default"
              [] Len(e) = 1 -> e[1]
              [] Len(e) = 2 -> e[1] \o "_" \o e[2]
              [] Len(e) = 3 -> e[1] \o "_" \o e[2] \o "_" \o e[3]
    IN  /\ \A p \in Procs : pc[p] = "keyed" => cacheKey[p] = Expected(params[p])
        /\ \A p, q \in Procs :
              (pc[p] = "keyed" /\ pc[q] = "keyed" /\ Normal(params[p]) = Normal(params[q]))
                 => cacheKey[p] = cacheKey[q]

\* C12 witness: two calls whose collectionIds are null and 'none' got the
\* same two-field key.
C12_Witness ==
    /\ pc[1] = "keyed" /\ pc[2] = "keyed"
    /\ params[1].collectionIds = NullString
    /\ params[2].collectionIds = "none"
    /\ cacheKey[1] = "addPhotoOfTheDay=true_orientation=portrait"
    /\ cacheKey[2] = cacheKey[1]

\* C13: for two requests the parameter layer can produce and the handler
\* accepts, generateCacheKey gives the same key exactly when their upstream
\* filters are the same.
C13_KeyMatchesFilters ==
    \A p, q \in Procs :
        (/\ pc[p] = "keyed" /\ pc[q] = "keyed"
         /\ params[p] \in LayerParams /\ params[q] \in LayerParams
         /\ ~BothFilters(params[p]) /\ ~BothFilters(params[q])) =>
            (UpstreamFilter(params[p]) = UpstreamFilter(params[q])
                <=> cacheKey[p] = cacheKey[q])

\* C14: every step of a request for cache key K or of its background work
\* leaves every store entry other than META_K, MAIN_K and BUFFER_K as it
\* was, and a record served from the cache to a request for K came with a
\* bulk response fetched for K.
C14_PartitionIsolation ==
    /\ [](\A p \in Procs :
            response[p].from \in {"main", "buffer"} =>
               /\ StampOf(response[p].image) \in DOMAIN origin
               /\ origin[StampOf(response[p].image)] = cacheKey[p])
    /\ [][\A p \in Procs :
            pc'[p] # pc[p] =>
               \A k \in DOMAIN kv' :
                  k \notin {MetaKeyOf(cacheKey[p]), MainKeyOf(cacheKey[p]),
                            BufferKeyOf(cacheKey[p])}
                     => (k \in DOMAIN kv /\ kv'[k] = kv[k])]_vars

\* C14 witness: a request for another partition is served from its main
\* tier while the partition of the requests without filters holds records.
C14_Witness ==
    \E p \in Procs :
        /\ response[p].from = "main"
        /\ cacheKey[p] # HomeKey
        /\ Has(kv, MainKey)
        /\ Occupied(kv[MainKey]) > 0

C16_RefillFailureRestores ==
    [][\A p \in Procs :
          (pc[p] = "rf_catch" /\ pc'[p] # "rf_catch" /\ faults' = faults) =>
              /\ failed'[p]
              /\ ~kv'[MetaKeyOf(cacheKey[p])].isRefilling
              /\ kv'[BufferKeyOf(cacheKey[p])] = prior[p][1]
              /\ kv'[MetaKeyOf(cacheKey[p])].bufferCache = prior[p][2]]_vars

\* C17: when the bulk fetch answers with no record, refillBufferCache
\* returns without an error, the persisted flag is false and the persisted
\* count of the buffer tier is 0.
C17_EmptyResultEmptiesBuffer ==
    [][\A p \in Procs :
          (/\ pc[p] = "rf_meta" /\ pc'[p] # "rf_meta"
           /\ batches[p][Len(batches[p])] = 0) =>
              /\ ~failed'[p]
              /\ ~kv'[MetaKeyOf(cacheKey[p])].isRefilling
              /\ kv'[MetaKeyOf(cacheKey[p])].bufferCache.count = 0]_vars

C19_DesyncFallsThrough ==
    [][\A p \in Procs :
          LET t == cacheType[p]
              nothing ==
                  \/ /\ pc[p] = "take_get"
                     /\ metadata[p][Field(t)].count > 0
                     /\ metadata'[p] # metadata[p]
                  \/ /\ pc[p] = "take_put"
                     /\ cacheArray'[p] # cacheArray[p]
                     /\ pc'[p] # "main_meta"
                     /\ response'[p] = response[p]
          IN  /\ nothing =>
                  /\ response'[p] = NoResponse
                  /\ IF t = "main" /\ metadata[p].bufferCache.count > 0
                     THEN pc'[p] = "take_get" /\ cacheType'[p] = "buffer"
                     ELSE pc'[p] = "fetch_image"
              /\ (pc[p] = "fetch_image" /\ pc'[p] # "fetch_image" /\ faults' = faults) =>
                  /\ response'[p].status = "ok"
                  /\ Truthy(response'[p].image)]_vars

\* C20: the puts of getOrInitializeMetadata never replace what a populated
\* partition holds: where the key is already stored, the main or buffer
\* array it replaces holds no record, and the metadata it replaces is the
\* zeroed record.
C20_InitKeepsPopulated ==
    [][\A p \in Procs :
          LET main == MainKeyOf(cacheKey[p])
              buffer == BufferKeyOf(cacheKey[p])
              meta == MetaKeyOf(cacheKey[p])
          IN  pc'[p] # pc[p] =>
                  /\ (pc[p] = "init_main" /\ Has(kv, main)) => Occupied(kv[main]) = 0
                  /\ (pc[p] = "init_buffer" /\ Has(kv, buffer)) => Occupied(kv[buffer]) = 0
                  /\ (pc[p] = "init_meta" /\ Has(kv, meta)) => kv[meta] = ZeroMeta]_vars

\* C21: in every reachable state the stored main array and the stored
\* buffer array have exactly CAPACITY slots, also after a refill that
\* received fewer than CAPACITY records and after the promotion of such a
\* buffer.
C21_ArraysHaveCapacitySlots ==
    /\ Has(kv, MainKey) => Len(kv[MainKey]) = CAPACITY
    /\ Has(kv, BufferKey) => Len(kv[BufferKey]) = CAPACITY

\* C22: once failureThreshold upstream calls in a row have failed, with no
\* call answered since, the circuit breaker has left the state CLOSED (it is
\* OPEN, or HALF-OPEN after the reset threshold) and has counted the
\* failures.
C22_BreakerOpens ==
    streak >= circuitBreaker.failureThreshold =>
        /\ circuitBreaker.state \in {"OPEN", "HALF-OPEN"}
        /\ circuitBreaker.failures >= circuitBreaker.failureThreshold

\* C23: for every stored array and every pointer, a getImageFromCache call
\* on a tier whose count is above 0 returns the record of the first slot
\* that holds one in the circular order pointer + 1, pointer + 2, ...,
\* pointer (mod CAPACITY), leaves the pointer on that slot, empties that
\* slot only and puts the array back; when no slot holds a record it
\* returns none, writes nothing, and the pointer has wrapped to where it
\* started.
C23_FirstRecordInCircularOrder ==
    [][\A p \in Procs :
          LET t == cacheType[p]
              key == StorageKeyOf(cacheKey[p], t)
              ptr == metadata[p][Field(t)].currentPointer
              At(k) == (ptr + k) % CAPACITY
              Holds(arr, k) == At(k) < Len(arr) /\ arr[At(k) + 1] > Null
              Some(arr) == \E k \in 1..CAPACITY : Holds(arr, k)
              First(arr) == At(CHOOSE k \in 1..CAPACITY :
                                  Holds(arr, k) /\ \A j \in 1..(k - 1) : ~Holds(arr, j))
          IN  /\ (/\ pc[p] = "take_get"
                  /\ metadata[p][Field(t)].count > 0
                  /\ Has(kv, key)
                  /\ (pc'[p] # pc[p] \/ metadata'[p] # metadata[p])) =>
                     IF Some(kv[key])
                     THEN pc'[p] = "take_put" /\ cacheArray'[p] = kv[key]
                     ELSE /\ pc'[p] # "take_put"
                          /\ kv' = kv
                          /\ metadata'[p][Field(t)].currentPointer = ptr
              /\ (pc[p] = "take_put" /\ pc'[p] # "take_put") =>
                     /\ Some(cacheArray[p])
                     /\ LET found == First(cacheArray[p]) IN
                        /\ Returned(p) = cacheArray[p][found + 1]
                        /\ metadata'[p][Field(t)].currentPointer = found
                        /\ kv'[key] = [cacheArray[p] EXCEPT ![found + 1] = Null]]_vars

\* C24: the slot scan of getImageFromCache ends after looking at no more
\* than CAPACITY slots, for every stored array and every count above 0 (a
\* count above the number of records and an array without any record
\* included), in the parameter-scoped variant and in the single-partition
\* variant.
C24_ScanTerminates ==
    [][\A p \in Procs :
          LET t == cacheType[p]
              cache == metadata[p][Field(t)]
              scans == /\ cache.count > 0
                       /\ Has(kv, StorageKey(t))
                       /\ (pc'[p] # pc[p] \/ metadata'[p] # metadata[p])
          IN  /\ (pc[p] = "take_get" /\ scans) =>
                     Scan(kv[StorageKey(t)], cache.currentPointer).inspected <= CAPACITY
              /\ (pc[p] = "single_get" /\ scans) =>
                     /\ pc'[p] # "single_scan"
                     /\ \A matching \in SUBSET RecordsOf(kv[StorageKey(t)]) :
                            LET s == ScanSingle(kv[StorageKey(t)], matching,
                                                cache.currentPointer, cache.count)
                            IN  ~s.running /\ s.inspected <= CAPACITY]_vars

C26_LoadSeesFlag ==
    [][\A p, q \in Procs :
          (/\ p # q
           /\ pc[p] = "rf_fetch"
           /\ pc[q] = "meta_get" /\ pc'[q] # "meta_get") =>
              metadata'[q].isRefilling]_vars

\* C26, amended: a refill that passes the guard has persisted
\* isRefilling = true when its bulk fetch is issued; while the fetch is
\* outstanding the persisted flag becomes false only by another
\* invocation's write of the metadata record, and a request that loads the
\* record while it is true loads it true.
C26_MarkBeforeFetch ==
    [][\A p \in Procs :
          LET meta == MetaKeyOf(cacheKey[p]) IN
          /\ (pc[p] # "rf_fetch" /\ pc'[p] = "rf_fetch") =>
                 /\ pc[p] = "rf_start"
                 /\ kv'[meta].isRefilling
                 /\ metadata'[p].isRefilling
          /\ (/\ pc[p] = "rf_fetch" /\ pc'[p] = "rf_fetch"
              /\ kv[meta].isRefilling /\ ~kv'[meta].isRefilling) =>
                 \E q \in Procs \ {p} : pc'[q] # pc[q] /\ kv'[meta] = metadata'[q]
          /\ \A q \in Procs \ {p} :
                 (/\ pc[p] = "rf_fetch" /\ kv[meta].isRefilling
                  /\ cacheKey[q] = cacheKey[p]
                  /\ pc[q] = "meta_get" /\ pc'[q] # "meta_get") =>
                     metadata'[q].isRefilling]_vars

\* C26 happens: a request has loaded the flag as true while the bulk fetch
\* of the other invocation is outstanding.
C26_Witness ==
    \E p, q \in Procs :
        /\ pc[p] = "rf_fetch"
        /\ pc[q] = "fetch_image"
        /\ metadata[q].isRefilling
        /\ kv[MetaKey].isRefilling

TaskOf(at) ==
    IF at \in {"rf_start", "rf_fetch", "rf_put", "rf_meta", "rf_catch"} THEN "refillBufferCache"
    ELSE IF at \in {"cp_get", "cp_put", "cp_meta"} THEN "copyBufferToMain"
    ELSE IF at = "bg_meta" THEN "updateMetadata"
    ELSE "none"

Pending(at, ch) == IF TaskOf(at) = "none" THEN << >> ELSE <<TaskOf(at)>> \o ch

C29_EmptyTierNoEffect ==
    [][\A p \in Procs :
          (/\ pc[p] = "take_get"
           /\ metadata[p][Field(cacheType[p])].count = 0
           /\ (pc'[p] # pc[p] \/ cacheType'[p] # cacheType[p])) =>
              /\ pc'[p] # "take_put"
              /\ ~metadataChanged'[p]
              /\ kv' = kv
              /\ cacheArray'[p] = cacheArray[p]
              /\ metadata'[p] = metadata[p]
              /\ imageData'[p] = Null
              /\ response'[p] = response[p]]_vars

\* C29 happens: the call has returned on a count of 0 although the tier's
\* stored array holds a record.
C29_Witness ==
    /\ pc[1] = "fetch_image"
    /\ entry[1] = <<0, 0>>
    /\ ~metadataChanged[1]
    /\ Has(kv, MainKey) /\ Has(kv, BufferKey)
    /\ Occupied(kv[MainKey]) + Occupied(kv[BufferKey]) = CAPACITY
    /\ kv[MetaKey] = metadata[1]

\* C30: a getImageFromCache call on a tier whose count is above 0 and whose
\* array is not in the store puts an array of CAPACITY empty slots under the
\* tier's key, sets the tier's count to 0 and returns no record with
\* metadataChanged = true; nothing else is written or changed.
C30_MissingArrayRecreated ==
    [][\A p \in Procs :
          LET t == cacheType[p]
              key == StorageKeyOf(cacheKey[p], t)
              cache == metadata[p][Field(t)]
          IN  (/\ pc[p] = "take_get"
               /\ cache.count > 0
               /\ ~Has(kv, key)
               /\ metadata'[p] # metadata[p]) =>
                  /\ kv' = Put(kv, key, [i \in 1..CAPACITY |-> Null])
                  /\ metadata'[p] = SetTier(metadata[p], t, 0, cache.currentPointer)
                  /\ metadataChanged'[p]
                  /\ pc'[p] # "take_put"
                  /\ imageData'[p] = Null
                  /\ response'[p] = response[p]]_vars

\* C30 happens: the main array was not in the store under a count above 0;
\* the call has put the empty array and reset the count.
C30_Witness ==
    /\ pc[1] = "fetch_image"
    /\ entry[1][1] > 0
    /\ metadataChanged[1]
    /\ metadata[1].mainCache.count = 0
    /\ Has(kv, MainKey) /\ ~Has(kv, BufferKey)
    /\ kv[MainKey] = [i \in 1..CAPACITY |-> Null]

----------------------------------------------------------------------------
\* The record invocation p took from a tier and the tier it came from, once
\* the tier's array was put back: a record of main is held until the
\* metadata is written, a record of the buffer is answered at once.
TookFrom(p) ==
    IF pc[p] = "main_meta" THEN "main"
    ELSE IF response[p].status = "ok" THEN response[p].from ELSE "none"

Took(p) == IF pc[p] = "main_meta" THEN imageData[p] ELSE response[p].image

\* The count of tier t the request of p loaded.
Loaded(p, t) == IF t = "main" THEN entry[p][1] ELSE entry[p][2]

\* C31: lost update.  Two requests in flight on the same partition and tier
\* that loaded the same counts and both read the tier's array before either
\* put it back are served the same record, and the metadata write of the
\* second leaves the tier's persisted count one below the count both loaded:
\* one removal is accounted for, not two.
C31_LostUpdate ==
    [][\A p, q \in Procs :
         LET t == TookFrom(p) IN
         (/\ p # q
          /\ pc[p] \in {"main_meta", "bg_meta"} /\ kv'[MetaKey] # kv[MetaKey]
          /\ pc'[p] # pc[p]
          /\ t \in {"main", "buffer"} /\ TookFrom(q) = t
          /\ Took(q) = Took(p)
          /\ entry[q] = entry[p]
          /\ pc[q] \notin {"main_meta", "bg_meta"}) =>
             /\ response'[p].status = "ok" /\ response'[q].status = "ok"
             /\ response'[p].image = response'[q].image
             /\ kv'[MetaKey][Field(t)].count = Loaded(p, t) - 1]_vars

\* C31 witness: both requests read the same main array, both were answered
\* with the same record, and the second metadata write has left the count
\* one below the count both loaded.
C31_Witness ==
    /\ response[1].status = "ok" /\ response[2].status = "ok"
    /\ response[1].from = "main" /\ response[2].from = "main"
    /\ response[1].image = response[2].image
    /\ entry[1] = entry[2] /\ entry[1][1] = CAPACITY
    /\ ~solo[1] /\ ~solo[2]
    /\ kv[MetaKey].mainCache.count = CAPACITY - 1
    /\ Occupied(kv[MainKey]) = CAPACITY - 1

\* A refillBufferCache run of p is between persisting the flag and clearing it.
Refilling(p) == pc[p] \in {"rf_fetch", "rf_put", "rf_meta", "rf_catch"}

\* C32: the isRefilling guard gives no mutual exclusion.  A refill that
\* begins with the flag false in its own metadata object goes on to its bulk
\* fetch also when the persisted flag is true and another refill of the
\* partition has its fetch outstanding: both fetches are then outstanding at
\* the same time.
C32_NoMutualExclusion ==
    [][\A p, q \in Procs :
         (/\ p # q
          /\ pc[p] = "rf_start" /\ pc'[p] # "rf_start"
          /\ ~metadata[p].isRefilling
          /\ pc[q] = "rf_fetch" /\ kv[MetaKey].isRefilling) =>
             /\ pc'[p] = "rf_fetch" /\ pc'[q] = "rf_fetch"
             /\ metadata'[p].isRefilling /\ kv'[MetaKey].isRefilling]_vars

\* C32 witness: two requests found the partition cold, and the first refill
\* of the cold chain of each has its bulk fetch outstanding.
C32_Witness ==
    /\ pc[1] = "rf_fetch" /\ pc[2] = "rf_fetch"
    /\ entry[1] = <<0, 0>> /\ entry[2] = <<0, 0>>
    /\ response[1].from = "upstream" /\ response[2].from = "upstream"
    /\ batches[1] = << >> /\ batches[2] = << >>
    /\ cacheKey[1] = cacheKey[2]

\* C33: in every reachable state the persisted isRefilling flag of the
\* partition is true only while some refillBufferCache run for it is between
\* persisting the flag and clearing it: no invocation that loaded the flag
\* as true writes it back after the refill has cleared it.
C33_FlagOnlyWhileRefilling ==
    (Has(kv, MetaKey) /\ kv[MetaKey].isRefilling) =>
        \E p \in Procs : Refilling(p) /\ cacheKey[p] = HomeKey

\* C34: getImageFromCache decrements a tier's count only when it returns a
\* record, also on a stored array of fewer than CAPACITY entries (a position
\* past its end counts as empty); and a tier whose count was the number of
\* records it stored holds no record any more when the call brings its
\* count to 0.
C34_DecrementOnlyWithRecord ==
    [][\A p \in Procs :
         LET t == cacheType[p]
             before == metadata[p][Field(t)].count
             after == metadata'[p][Field(t)].count IN
         (pc[p] = "take_put" /\ metadata'[p] # metadata[p]) =>
            /\ after < before => Truthy(Returned(p))
            /\ (after = 0 /\ before = Occupied(cacheArray[p])) =>
                  Occupied(kv'[StorageKey(t)]) = 0]_vars

\* The record a step answers to the request of p from a tier (Null: the step
\* answers none).
Answered(p) ==
    IF response[p].status = "none" /\ response'[p].status = "ok"
          /\ response'[p].from \in {"main", "buffer"}
    THEN response'[p].image
    ELSE Null

\* C35: at-most-once consumption.  A record that a refill wrote into the
\* buffer tier is answered to at most one request, whatever requests,
\* promotions and refills follow, also when the refill after a promotion
\* fails, returns nothing or is skipped.
C35_AtMostOnce ==
    [][\A p \in Procs : Answered(p) # Null => Answered(p) \notin served]_vars

\* C36: steady state.  With requests one at a time, every bulk response of
\* CAPACITY records and no failure, every request after the first that is
\* not a bypass is answered from the main tier, and none of them goes to the
\* single-image upstream fetch.
C36_SteadyState ==
    [][\A p \in Procs :
         (serial /\ faults' = 0 /\ reqs > 1 /\ ~noCache[p]) =>
            /\ pc'[p] # "fetch_image"
            /\ (response[p].status = "none" /\ response'[p].status # "none") =>
                  /\ response'[p].status = "ok"
                  /\ response'[p].from = "main"]_vars

\* C36 witness: CAPACITY requests after the cold one have drained main, and
\* the next is answered from main: the refresh has promoted the buffer and
\* refilled it.
C36_Witness ==
    \E p \in Procs :
        /\ serial /\ faults = 0 /\ reqs = CAPACITY + 2 /\ ~noCache[p]
        /\ response[p].status = "ok" /\ response[p].from = "main"
        /\ clock = 3
        /\ Cardinality(served) = CAPACITY + 1

\* C37: the persisted lastRefillTime of the partition never decreases: no
\* metadata write replaces a stored lastRefillTime by an earlier value or
\* by 0.
C37_RefillTimeMonotonic ==
    [][Has(kv, MetaKey) => kv'[MetaKey].lastRefillTime >= kv[MetaKey].lastRefillTime]_vars

\* The error response r reports that the upstream answered the single-image
\* fetch with HTTP 429.
RateLimited(r) == r.from = "upstream" /\ Includes(r.body, ApiError("429", ""))

\* C38: a request whose single-image upstream fetch failed because the
\* upstream is rate limiting (HTTP 429) is answered with status 429; every
\* other failure of the upstream or of the store before the response is
\* answered with status 500.
C38_RateLimitStatus ==
    \A p \in Procs :
        (response[p].status = "error" /\ response[p] # BothFiltersResponse) =>
            response[p].code = IF RateLimited(response[p]) THEN 429 ELSE 500

----------------------------------------------------------------------------
\* The metrics of the single-partition variant (src/src/index.js):
\* updateMetrics queues an increment in the memory of the worker and sets a
\* timer; the timer's callback adds the queue to the stored metadata.  The
\* metadata of the variant is under the key STOREMETA and its arrays under
\* MAINCACHE and BUFFERCACHE: here the entries of the home partition.  The
\* requests are those that find more than one record in main: they are
\* answered from main and schedule no background work.

\* The metrics of the stored metadata when the behaviour begins: the cold
\* request that filled the tiers was counted.
BaseMetrics == [name \in MetricNames |-> IF name = "totalRequests" THEN 1 ELSE 0]

\* The stored metadata after the cold chain: both tiers full.
MetricsMeta ==
    [mainCache |-> [count |-> CAPACITY, currentPointer |-> 0],
     bufferCache |-> [count |-> CAPACITY, currentPointer |-> 0],
     isRefilling |-> FALSE,
     lastRefillTime |-> 2,
     metrics |-> BaseMetrics]

\* metricsUpdateQueue[metricName] = (metricsUpdateQueue[metricName] || 0) + 1,
\* for each of names.
Queued(queue, names) ==
    [name \in MetricNames |-> queue[name] + IF name \in names THEN 1 ELSE 0]

\* updateMetrics(name) for each of names, in one stretch of synchronous
\* code: the increments are queued, and the timer is set if it was not.
UpdateMetrics(names) ==
    /\ metricsUpdateQueue' = Queued(metricsUpdateQueue, names)
    /\ metricsUpdateTimer' = TRUE
    /\ called' = Queued(called, names)

\* metadata.metrics[metric] += count, for every entry of the queue.
ApplyQueue(m, queue) ==
    [m EXCEPT !.metrics = [name \in MetricNames |-> m.metrics[name] + queue[name]]]

InitMetrics ==
    /\ kv = [k \in {MetaKey, MainKey, BufferKey} |->
               IF k = MetaKey THEN MetricsMeta
               ELSE IF k = MainKey THEN OptimizedImages(CAPACITY, 1)
               ELSE OptimizedImages(CAPACITY, 2)]
    /\ clock = 2
    /\ reqs = 0
    /\ faults = 0
    /\ serial = FALSE
    /\ filters = {HomeParams}
    /\ flaky = TRUE
    /\ origin = <<HomeKey, HomeKey>>
    /\ circuitBreaker = CircuitBreaker
    /\ streak = 0
    /\ served = {}
    /\ metricsUpdateQueue = NoUpdates
    /\ metricsUpdateTimer = FALSE
    /\ flush = NoFlush
    /\ called = NoUpdates
    /\ pc = [p \in Procs |-> "idle"]
    /\ noCache = [p \in Procs |-> FALSE]
    /\ params = [p \in Procs |-> HomeParams]
    /\ cacheKey = [p \in Procs |-> HomeKey]
    /\ cacheType = [p \in Procs |-> "none"]
    /\ metadata = [p \in Procs |-> ZeroMeta]
    /\ cacheArray = [p \in Procs |-> << >>]
    /\ imageData = [p \in Procs |-> Null]
    /\ metadataChanged = [p \in Procs |-> FALSE]
    /\ chain = [p \in Procs |-> << >>]
    /\ response = [p \in Procs |-> NoResponse]
    /\ entry = [p \in Procs |-> <<0, 0>>]
    /\ batches = [p \in Procs |-> << >>]
    /\ failed = [p \in Procs |-> FALSE]
    /\ solo = [p \in Procs |-> TRUE]
    /\ prior = [p \in Procs |-> << >>]

\* handleRandomRequest of the variant: the get of the metadata, then
\* updateMetrics('totalRequests'); pattern 1 is taken.
Single_HandleRandomRequest(p) ==
    /\ pc[p] = "idle"
    /\ reqs < RequestBudget
    /\ kv[MetaKey].mainCache.count > 1
    /\ reqs' = reqs + 1
    /\ metadata' = [metadata EXCEPT ![p] = kv[MetaKey]]
    /\ entry' = [entry EXCEPT ![p] =
                   <<kv[MetaKey].mainCache.count, kv[MetaKey].bufferCache.count>>]
    /\ cacheType' = [cacheType EXCEPT ![p] = "main"]
    /\ pc' = [pc EXCEPT ![p] = "single_get"]
    /\ UpdateMetrics({"totalRequests"})
    /\ UNCHANGED <<kv, clock, faults, serial, filters, flaky, origin, circuitBreaker, served,
                   streak, flush, noCache, params, cacheKey, cacheArray, imageData,
                   metadataChanged, chain, response, batches, failed, solo, prior>>

\* Pattern 1 of the variant after getImageFromCache returned a record:
\* updateMetrics('cacheHits'), updateMetrics('mainCacheHits'), then
\* updateMetadata of the request's metadata object, and the response.
Single_UpdateMetadata(p) ==
    /\ pc[p] = "done"
    /\ Truthy(imageData[p])
    /\ UpdateMetrics({"cacheHits", "mainCacheHits"})
    /\ kv' = IF metadataChanged[p] THEN Put(kv, MetaKey, metadata[p]) ELSE kv
    /\ response' = [response EXCEPT ![p] =
                      [status |-> "ok", from |-> "main", image |-> imageData[p]]]
    /\ imageData' = [imageData EXCEPT ![p] = Null]
    /\ pc' = [pc EXCEPT ![p] = "answered"]
    /\ UNCHANGED <<clock, reqs, faults, serial, filters, flaky, origin, circuitBreaker, served,
                   streak, flush, noCache, params, cacheKey, cacheType, metadata, cacheArray,
                   metadataChanged, chain, history>>

\* The request of the variant is over: its objects are gone.
Single_Finish(p) ==
    /\ pc[p] = "answered"
    /\ pc' = [pc EXCEPT ![p] = "idle"]
    /\ cacheType' = [cacheType EXCEPT ![p] = "none"]
    /\ metadata' = [metadata EXCEPT ![p] = ZeroMeta]
    /\ metadataChanged' = [metadataChanged EXCEPT ![p] = FALSE]
    /\ response' = [response EXCEPT ![p] = NoResponse]
    /\ entry' = [entry EXCEPT ![p] = <<0, 0>>]
    /\ UNCHANGED <<kv, world, noCache, params, cacheKey, cacheArray, imageData, chain,
                   batches, failed, solo, prior>>

\* The timer fires: the callback gets the stored metadata, adds every entry
\* of the queue to it and starts updateMetadata.
UpdateMetrics_Get ==
    /\ metricsUpdateTimer
    /\ flush.at = "none"
    /\ flush' = [at |-> "put", metadata |-> ApplyQueue(kv[MetaKey], metricsUpdateQueue)]
    /\ UNCHANGED <<kv, clock, reqs, faults, serial, filters, flaky, origin, circuitBreaker,
                   served, streak, metricsUpdateQueue, metricsUpdateTimer, called, pc,
                   noCache, params, cacheKey, cacheType, metadata, cacheArray, imageData,
                   metadataChanged, chain, response, history>>

\* updateMetadata of the callback ends: the queue and the timer are cleared.
UpdateMetrics_Put ==
    /\ flush.at = "put"
    /\ kv' = Put(kv, MetaKey, flush.metadata)
    /\ metricsUpdateQueue' = NoUpdates
    /\ metricsUpdateTimer' = FALSE
    /\ flush' = NoFlush
    /\ UNCHANGED <<clock, reqs, faults, serial, filters, flaky, origin, circuitBreaker,
                   served, streak, called, pc, noCache, params, cacheKey, cacheType,
                   metadata, cacheArray, imageData, metadataChanged, chain, response,
                   history>>

\* updateMetadata of the callback fails: the catch block clears the timer
\* and keeps the queue for the next batch.
UpdateMetrics_PutError ==
    /\ flush.at = "put"
    /\ flaky
    /\ faults < FaultBudget
    /\ faults' = faults + 1
    /\ metricsUpdateTimer' = FALSE
    /\ flush' = NoFlush
    /\ UNCHANGED <<kv, clock, reqs, serial, filters, flaky, origin, circuitBreaker,
                   served, streak, metricsUpdateQueue, called, pc, noCache, params,
                   cacheKey, cacheType, metadata, cacheArray, imageData, metadataChanged,
                   chain, response, history>>

NextMetrics ==
    \/ \E p \in Procs :
          \/ Single_HandleRandomRequest(p)
          \/ GetImageFromCache_Single(p, RecordsOf(kv[MainKey]))
          \/ Single_UpdateMetadata(p)
          \/ Single_Finish(p)
    \/ UpdateMetrics_Get
    \/ UpdateMetrics_Put
    \/ UpdateMetrics_PutError

SpecMetrics == InitMetrics /\ [][NextMetrics]_vars

\* No updateMetrics call is pending: no request is in flight, the queue is
\* empty, no timer is set and the callback is not running.
MetricsSettled ==
    /\ \A p \in Procs : pc[p] = "idle"
    /\ metricsUpdateQueue = NoUpdates
    /\ ~metricsUpdateTimer
    /\ flush.at = "none"

\* C39: in the single-partition variant no metric increment is lost or
\* counted twice: once every queued increment was written by a batch that
\* succeeded, each stored metric is its value at the start plus the number
\* of updateMetrics calls made for it.
C39_MetricsExact ==
    MetricsSettled =>
        \A name \in MetricNames : kv[MetaKey].metrics[name] = BaseMetrics[name] + called[name]

====
